---- MODULE Spec2Model ----
(***************************************************************************)
(* A model of zombiezen.com/go/uritemplate: the RFC 6570 Level 4 template  *)
(* expander.  Strings are sequences of bytes (0..255), as Go strings are;  *)
(* runes are decoded from them as utf8.DecodeRuneInString does.            *)
(***************************************************************************)
EXTENDS Integers, Sequences, FiniteSets, TLC

(***************************************************************************)
(* Bytes and strings.                                                      *)
(***************************************************************************)

\* The printable ASCII characters, in code order from 32 (space) to 126 (~);
\* the four quoting characters are spelled out.
Printable ==
  << " ", "!", "dquote", "#", "$", "%", "&", "apostrophe", "(", ")", "*", "+", ",", "-", ".", "/",
     "0", "1", "2", "3", "4", "5", "6", "7", "8", "9", ":", ";", "<", "=", ">", "?",
     "@", "A", "B", "C", "D", "E", "F", "G", "H", "I", "J", "K", "L", "M", "N", "O",
     "P", "Q", "R", "S", "T", "U", "V", "W", "X", "Y", "Z", "[", "backslash", "]", "^", "_",
     "backtick", "a", "b", "c", "d", "e", "f", "g", "h", "i", "j", "k", "l", "m", "n", "o",
     "p", "q", "r", "s", "t", "u", "v", "w", "x", "y", "z", "{", "|", "}", "~" >>

\* The byte of a printable ASCII character.
Ord ==
  [c \in {Printable[k] : k \in 1..Len(Printable)} |->
     31 + (CHOOSE k \in 1..Len(Printable) : Printable[k] = c)]

Ch(c) == Ord[c]

\* The Go string written as a tuple of one-character strings.
Str(q) == [k \in 1..Len(q) |-> Ord[q[k]]]

\* The bytes of a set of characters, as in strings.ContainsRune(chars, c).
Chars(q) == {Ord[q[k]] : k \in 1..Len(q)}

\* s[from:] with a 0-based offset, as Go slices a string.
Drop(s, n) == SubSeq(s, n + 1, Len(s))

\* s[:n]
Take(s, n) == SubSeq(s, 1, n)

\* The member of a set of one: Only({e : x \in {v}}) is e with v for x, and
\* evaluates v once.
Only(S) == CHOOSE y \in S : TRUE

\* The string comparison a < b of Go: bytewise lexicographic.
RECURSIVE StrLess(_, _)
StrLess(a, b) ==
  IF Len(b) = 0 THEN FALSE
  ELSE IF Len(a) = 0 THEN TRUE
  ELSE IF a[1] # b[1] THEN a[1] < b[1]
  ELSE StrLess(Tail(a), Tail(b))

RuneError == 65533

\* utf8.DecodeRuneInString: the first rune of s and its width in bytes;
\* an invalid or truncated encoding yields (RuneError, 1).
DecodeRuneInString(s) ==
  IF Len(s) = 0 THEN [r |-> RuneError, size |-> 0]
  ELSE
    LET b0 == s[1]
        cont(k) == Len(s) >= k /\ s[k] \in 128..191
        lo2 == IF b0 = 224 THEN 160 ELSE IF b0 = 240 THEN 144 ELSE 128
        hi2 == IF b0 = 237 THEN 159 ELSE IF b0 = 244 THEN 143 ELSE 191
        snd == Len(s) >= 2 /\ s[2] \in lo2..hi2
    IN  IF b0 < 128 THEN [r |-> b0, size |-> 1]
        ELSE IF b0 \in 194..223 /\ snd
          THEN [r |-> (b0 - 192) * 64 + (s[2] - 128), size |-> 2]
        ELSE IF b0 \in 224..239 /\ snd /\ cont(3)
          THEN [r |-> (b0 - 224) * 4096 + (s[2] - 128) * 64 + (s[3] - 128), size |-> 3]
        ELSE IF b0 \in 240..244 /\ snd /\ cont(3) /\ cont(4)
          THEN [r |-> (b0 - 240) * 262144 + (s[2] - 128) * 4096
                        + (s[3] - 128) * 64 + (s[4] - 128), size |-> 4]
        ELSE [r |-> RuneError, size |-> 1]

\* unicode.IsControl: the category Cc.
IsControl(c) == c \in 0..31 \/ c \in 127..159

isAlpha(c) == c \in Ch("A")..Ch("Z") \/ c \in Ch("a")..Ch("z")

isDigit(c) == c \in Ch("0")..Ch("9")

isUnreserved(c) == isAlpha(c) \/ isDigit(c) \/ c \in Chars(<<"-", ".", "_", "~">>)

isReserved(c) ==
  c \in Chars(<<":", "/", "?", "#", "[", "]", "@", "!", "$", "&", "apostrophe",
               "(", ")",
               "*", "+", ",", ";", "=">>)

isLiteral(c) ==
  /\ c \notin Chars(<<" ", "dquote", "apostrophe", "%", "<", ">", "backslash", "^", "backtick",
                    "{", "|", "}">>)
  /\ ~IsControl(c)

\* A variant that escapes every character outside the unreserved set.
escapeAllButUnreserved(c) == ~isUnreserved(c)

literalNeedsPercentEscape(c) == ~isUnreserved(c) /\ ~isReserved(c)

\* A variant that writes the hex digits in lower case.
lowerHex(x) == IF x >= 10 THEN Ch("a") + (x - 10) ELSE Ch("0") + x

upperHex(x) == IF x >= 10 THEN Ch("A") + (x - 10) ELSE Ch("0") + x

isHex(c) == isDigit(c) \/ c \in Ch("a")..Ch("f") \/ c \in Ch("A")..Ch("F")

\* A variant that copies the bytes as they are.
percentEscapeRaw(s) == s

\* percentEscape: every byte of s as %XX, uppercase.
RECURSIVE percentEscape(_)
percentEscape(s) ==
  IF Len(s) = 0 THEN << >>
  ELSE <<Ch("%"), upperHex(s[1] \div 16), upperHex(s[1] % 16)>> \o percentEscape(Tail(s))

escapeLen == 3

cutPercentEscape(s) ==
  IF Len(s) = 0 \/ s[1] # Ch("%") THEN [pct |-> << >>, rest |-> s, ok |-> FALSE]
  ELSE IF Len(s) < escapeLen THEN [pct |-> s, rest |-> << >>, ok |-> FALSE]
  ELSE [pct |-> Take(s, escapeLen), rest |-> Drop(s, escapeLen),
        ok |-> isHex(s[2]) /\ isHex(s[3])]

(***************************************************************************)
(* The expression parser.                                                  *)
(***************************************************************************)

cutVarChar(s) ==
  IF Len(s) = 0 THEN [vc |-> << >>, rest |-> s]
  ELSE IF s[1] = Ch("%") THEN
    LET p == cutPercentEscape(s)
    IN  IF ~p.ok THEN [vc |-> << >>, rest |-> s] ELSE [vc |-> p.pct, rest |-> p.rest]
  ELSE IF isAlpha(s[1]) \/ isDigit(s[1]) \/ s[1] = Ch("_") THEN
    [vc |-> Take(s, 1), rest |-> Drop(s, 1)]
  ELSE [vc |-> << >>, rest |-> s]

\* The loop of cutVarSpec that consumes the characters of the name after the
\* first: where it stops, and whether it stopped at a dot that no name
\* character follows (the code then returns without parsing a modifier).
RECURSIVE cutVarName(_)
cutVarName(rest) ==
  LET afterDot(n) ==
        IF n.vc = << >> THEN [rest |-> rest, atDot |-> TRUE] ELSE cutVarName(n.rest)
      afterChar(n) ==
        IF n.vc = << >> THEN [rest |-> n.rest, atDot |-> FALSE] ELSE cutVarName(n.rest)
  IN  IF Len(rest) = 0 THEN [rest |-> rest, atDot |-> FALSE]
      ELSE IF rest[1] = Ch(".") THEN afterDot(cutVarChar(Tail(rest)))
      ELSE afterChar(cutVarChar(rest))

\* The end of the digits of a prefix modifier: n := 2; for n < 5 && ... n++.
RECURSIVE prefixEnd(_, _)
prefixEnd(rest, n) ==
  IF n < 5 /\ n < Len(rest) /\ isDigit(rest[n + 1]) THEN prefixEnd(rest, n + 1) ELSE n

\* The modifier of a variable whose name ends where rest starts.
cutModifier(varName, rest, atDot) ==
  LET spec(n) == [varName |-> varName, modifier |-> Take(rest, n), rest |-> Drop(rest, n)]
  IN  IF atDot \/ Len(rest) = 0 THEN spec(0)
      ELSE IF rest[1] = Ch("*") THEN spec(1)
      ELSE IF rest[1] = Ch(":") THEN
        IF Len(rest) < 2 \/ rest[2] = Ch("0") \/ ~isDigit(rest[2]) THEN spec(0)
        ELSE spec(prefixEnd(rest, 2))
      ELSE spec(0)

cutVarSpec(expr) ==
  LET named(nm) == cutModifier(Take(expr, Len(expr) - Len(nm.rest)), nm.rest, nm.atDot)
      start(f) ==
        IF f.vc = << >> THEN [varName |-> << >>, modifier |-> << >>, rest |-> expr]
        ELSE named(cutVarName(f.rest))
  IN  start(cutVarChar(expr))

\* strings.IndexByte(s, c): the 0-based offset of the first c in s, or -1.
IndexByte(s, c) ==
  IF \E k \in 1..Len(s) : s[k] = c
    THEN (CHOOSE k \in 1..Len(s) : s[k] = c /\ \A j \in 1..(k - 1) : s[j] # c) - 1
    ELSE -1

\* The operator byte of an expression without an operator.
noOp == 0

validOps == Chars(<<"+", "#", ".", "/", ";", "?", "&">>)

reservedOps == Chars(<<"=", ",", "!", "@", "|">>)

writeRemainingExpression(op, rest) ==
  IF rest = << >> THEN << >>
  ELSE <<Ch("{")>> \o (IF op # noOp THEN <<op>> ELSE << >>) \o rest \o <<Ch("}")>>

(***************************************************************************)
(* The data adapter.  A value is what a reflect.Value shows the code:      *)
(*   kind   its reflect.Kind ("Invalid" for the zero Value);               *)
(*   impl   the rendering interfaces its type implements, out of           *)
(*          "Stringer", "error", "TextMarshaler", "Formatter";             *)
(*   s      val.String() for a String kind;                                *)
(*   sprint what fmt.Sprint(val) returns;                                  *)
(*   text, fails   what MarshalText returns, and whether with an error;    *)
(*   elems  the elements of a Slice or Array, the values of a Map (in the  *)
(*          order MapKeys happens to return its keys), the fields of a     *)
(*          Struct (in declared order), or the pointee of a Pointer or     *)
(*          Interface (no element: nil);                                   *)
(*   keys   the keys of a Map, or the Go field names of a Struct;          *)
(*   tags   the uritemplate tag of each field of a Struct;                 *)
(*   keyKind the Kind of a Map's key type.                                 *)
(***************************************************************************)

Invalid ==
  [kind |-> "Invalid", impl |-> {}, s |-> << >>, sprint |-> << >>, text |-> << >>,
   fails |-> FALSE, elems |-> << >>, keys |-> << >>, tags |-> << >>, keyKind |-> "Invalid"]

StringV(str) == [Invalid EXCEPT !.kind = "String", !.s = str, !.sprint = str]

\* An int, bool or other plain scalar, by its default formatting.
PlainV(kind, printed) == [Invalid EXCEPT !.kind = kind, !.sprint = printed]

SliceV(elems) == [Invalid EXCEPT !.kind = "Slice", !.elems = elems]

MapV(keys, elems) ==
  [Invalid EXCEPT !.kind = "Map", !.keys = keys, !.elems = elems, !.keyKind = "String"]

StructV(names, tags, elems) ==
  [Invalid EXCEPT !.kind = "Struct", !.keys = names, !.tags = tags, !.elems = elems]

PointerV(v) == [Invalid EXCEPT !.kind = "Pointer", !.elems = <<v>>]

NilPointer == [Invalid EXCEPT !.kind = "Pointer"]

\* A value stored in an interface (an element of []any, a value of map[string]any).
InterfaceV(v) == [Invalid EXCEPT !.kind = "Interface", !.elems = <<v>>]

NilInterface == [Invalid EXCEPT !.kind = "Interface"]

IsValid(v) == v.kind # "Invalid"

IsNil(v) == v.elems = << >>

Elem(v) == v.elems[1]

rendering == {"Stringer", "error", "TextMarshaler", "Formatter"}

RECURSIVE followIndirection(_)
followIndirection(v) ==
  IF ~IsValid(v) THEN [v |-> Invalid, scalar |-> FALSE]
  ELSE IF v.impl \cap rendering # {} THEN [v |-> v, scalar |-> TRUE]
  ELSE IF v.kind # "Pointer" /\ v.kind # "Interface" THEN [v |-> v, scalar |-> FALSE]
  ELSE IF IsNil(v) THEN [v |-> Invalid, scalar |-> FALSE]
  ELSE followIndirection(Elem(v))

undefinedKind == 0
scalarKind == 1
mapKind == 2
listKind == 3

\* A variant that looks at the shape of a value before its capabilities.
kindOfByShape(v0) ==
  LET f == followIndirection(v0)
      v == f.v
  IN  IF ~IsValid(v) THEN [vk |-> undefinedKind, val |-> Invalid]
      ELSE IF (v.kind = "Map" /\ v.keyKind = "String") \/ v.kind = "Struct"
        THEN [vk |-> mapKind, val |-> v]
      ELSE IF v.kind = "Slice" \/ v.kind = "Array" THEN [vk |-> listKind, val |-> v]
      ELSE [vk |-> scalarKind, val |-> v]

kindOf(v0) ==
  LET f == followIndirection(v0)
      v == f.v
  IN  IF ~IsValid(v) THEN [vk |-> undefinedKind, val |-> Invalid]
      ELSE IF ~f.scalar /\ ((v.kind = "Map" /\ v.keyKind = "String") \/ v.kind = "Struct")
        THEN [vk |-> mapKind, val |-> v]
      ELSE IF ~f.scalar /\ (v.kind = "Slice" \/ v.kind = "Array")
        THEN [vk |-> listKind, val |-> v]
      ELSE [vk |-> scalarKind, val |-> v]

\* unicode.ToLower of one byte (the model's field names are ASCII).
ToLower(b) == IF b \in Ch("A")..Ch("Z") THEN b + 32 ELSE b

\* reflect.StructField.IsExported: the name starts with an upper-case letter.
IsExported(name) == Len(name) > 0 /\ name[1] \in Ch("A")..Ch("Z")

\* describeStruct: fieldNames, the pair name of each field ("" for a field that
\* is not exported or is tagged "-"), and indexLookup, from pair name to the
\* 1-based index of the last field that resolves to it.
describeStruct(t) ==
  LET fieldName(k) ==
        IF ~IsExported(t.keys[k]) THEN << >>
        ELSE IF t.tags[k] = <<Ch("-")>> THEN << >>
        ELSE IF t.tags[k] # << >> THEN t.tags[k]
        ELSE <<ToLower(t.keys[k][1])>> \o Tail(t.keys[k])
      fieldNames == [k \in 1..Len(t.keys) |-> fieldName(k)]
      named == {k \in 1..Len(t.keys) : IsExported(t.keys[k]) /\ t.tags[k] # <<Ch("-")>>}
  IN  [fieldNames |-> fieldNames,
       indexLookup |->
         [n \in {fieldNames[k] : k \in named} |->
            CHOOSE k \in named : fieldNames[k] = n
                                 /\ \A j \in named : fieldNames[j] = n => j <= k]]

RECURSIVE unwrapComposite(_)
unwrapComposite(c) ==
  IF c.kind # "Pointer" /\ c.kind # "Interface" THEN c
  ELSE IF IsNil(c) THEN Invalid
  ELSE unwrapComposite(Elem(c))

lookupKey(composite0, key) ==
  IF ~IsValid(composite0) THEN Invalid
  ELSE
    LET composite == unwrapComposite(composite0)
    IN  IF composite.kind = "Map" THEN
          IF composite.keyKind # "String" THEN Invalid
          ELSE IF \E k \in 1..Len(composite.keys) : composite.keys[k] = key
            THEN composite.elems[CHOOSE k \in 1..Len(composite.keys) : composite.keys[k] = key]
            ELSE Invalid
        ELSE IF composite.kind = "Struct" THEN
          LET sd == describeStruct(composite)
          IN  IF key \notin DOMAIN sd.indexLookup THEN Invalid
              ELSE composite.elems[sd.indexLookup[key]]
        ELSE Invalid

\* sort.Slice(keys, keys[i] < keys[j]) on the keys of a map, which are distinct:
\* an insertion sort of the order MapKeys returned.
RECURSIVE insertKey(_, _)
insertKey(sorted, k) ==
  IF sorted = << >> THEN <<k>>
  ELSE IF StrLess(k, sorted[1]) THEN <<k>> \o sorted
  ELSE <<sorted[1]>> \o insertKey(Tail(sorted), k)

\* A variant that leaves the keys in the order MapKeys returned them.
keepKeyOrder(keys) == keys

RECURSIVE sortKeys(_)
sortKeys(keys) ==
  IF keys = << >> THEN << >>
  ELSE insertKey(sortKeys(Take(keys, Len(keys) - 1)), keys[Len(keys)])

\* The index of key k in the order MapKeys returned.
MapIndexOf(m, k) == CHOOSE j \in 1..Len(m.keys) : m.keys[j] = k

\* iterateMap: the (key, value) pairs in the order the callback is given them.
\* A kind other than Map or Struct panics; "unreachable" stands for that.
iterateMap(m) ==
  IF m.kind = "Map" THEN
    LET keys == sortKeys(m.keys)
    IN  [k \in 1..Len(keys) |-> [k |-> keys[k], v |-> m.elems[MapIndexOf(m, keys[k])]]]
  ELSE IF m.kind = "Struct" THEN
    LET sd == describeStruct(m)
        idx == {k \in 1..Len(m.keys) : sd.fieldNames[k] # << >>}
        nth(j) == CHOOSE k \in idx : Cardinality({i \in idx : i < k}) = j - 1
    IN  [j \in 1..Cardinality(idx) |-> [k |-> sd.fieldNames[nth(j)], v |-> m.elems[nth(j)]]]
  ELSE "unreachable"

noError == "nil"

coerceString(val) ==
  IF ~IsValid(val) THEN [s |-> << >>, err |-> "undefined value"]
  ELSE IF "TextMarshaler" \in val.impl THEN
    [s |-> val.text, err |-> IF val.fails THEN "marshal text" ELSE noError]
  ELSE IF val.kind = "String" /\ val.impl \cap {"Stringer", "error", "Formatter"} = {} THEN
    [s |-> val.s, err |-> noError]
  ELSE [s |-> val.sprint, err |-> noError]

\* strconv.Atoi of a string of digits; -1 stands for its error.
RECURSIVE Atoi(_)
Atoi(s) ==
  IF s = << >> \/ \E k \in 1..Len(s) : ~isDigit(s[k]) THEN -1
  ELSE IF Len(s) = 1 THEN s[1] - Ch("0")
  ELSE Atoi(Take(s, Len(s) - 1)) * 10 + (s[Len(s)] - Ch("0"))

\* The loop of modify: the byte offset after n runes, from offset pos.
\* A variant that counts bytes rather than runes.
bytesEnd(s, pos, n) == IF pos + n < Len(s) THEN pos + n ELSE Len(s)

RECURSIVE runesEnd(_, _, _)
runesEnd(s, pos, n) ==
  IF n > 0 /\ pos < Len(s)
    THEN runesEnd(s, pos + DecodeRuneInString(Drop(s, pos)).size, n - 1)
    ELSE pos

modify(s, modifier) ==
  IF Len(modifier) = 0 \/ modifier[1] # Ch(":") THEN s
  ELSE LET n == Atoi(Tail(modifier))
       IN  IF n <= 0 THEN s ELSE Take(s, runesEnd(s, 0, n))

isEmpty(v) ==
  IF v.kind = "Invalid" THEN TRUE
  ELSE IF v.kind = "String" THEN Len(v.s) = 0
  ELSE IF v.kind = "Map" THEN
    LET pairs == iterateMap(v)
    IN  ~\E k \in 1..Len(pairs) : IsValid(followIndirection(pairs[k].v).v)
  ELSE IF v.kind = "Slice" \/ v.kind = "Array" THEN
    ~\E k \in 1..Len(v.elems) : IsValid(followIndirection(v.elems[k]).v)
  ELSE FALSE

(***************************************************************************)
(* The variable expander.  Each operator returns the bytes the code        *)
(* appends to the strings.Builder.                                         *)
(***************************************************************************)

opUsesNames(op) == op = Ch(";") \/ op = Ch("?") \/ op = Ch("&")

\* A variant that separates with a comma under every operator.
opSepComma(op) == Ch(",")

\* A variant whose switch lacks the case of the form-style operators.
opSepWithoutQuery(op) ==
  IF op \in {noOp, Ch("+"), Ch("#")} THEN Ch(",")
  ELSE IF op \in {Ch("."), Ch("/"), Ch(";")} THEN op
  ELSE -1

\* The separator of an operator; -1 stands for panic("unreachable").
opSep(op) ==
  IF op \in {noOp, Ch("+"), Ch("#")} THEN Ch(",")
  ELSE IF op \in {Ch("."), Ch("/"), Ch(";")} THEN op
  ELSE IF op \in {Ch("?"), Ch("&")} THEN Ch("&")
  ELSE -1

\* The loop of writeVarNamePrefix over the name.
RECURSIVE writeVarName(_)
writeVarName(varName) ==
  LET step(p, d) ==
        IF p.ok THEN p.pct \o writeVarName(p.rest)
        ELSE (IF literalNeedsPercentEscape(d.r) THEN percentEscape(Take(varName, d.size))
              ELSE Take(varName, d.size)) \o writeVarName(Drop(varName, d.size))
  IN  IF Len(varName) = 0 THEN << >>
      ELSE step(cutPercentEscape(varName), DecodeRuneInString(varName))

writeVarNamePrefix(op, varName, empty) ==
  IF ~opUsesNames(op) THEN << >>
  ELSE writeVarName(varName)
       \o (IF ~empty \/ op = Ch("?") \/ op = Ch("&") THEN <<Ch("=")>> ELSE << >>)

\* The loop of writeValue for the operators + and #.
RECURSIVE writeValueReserved(_)
writeValueReserved(s) ==
  LET step(p, d) ==
        IF p.ok THEN p.pct \o writeValueReserved(Drop(s, Len(p.pct)))
        ELSE (IF isUnreserved(d.r) \/ isReserved(d.r) THEN Take(s, d.size)
              ELSE percentEscape(Take(s, d.size))) \o writeValueReserved(Drop(s, d.size))
  IN  IF Len(s) = 0 THEN << >>
      ELSE step(cutPercentEscape(s), DecodeRuneInString(s))

\* The loop of writeValue for every other operator.
RECURSIVE writeValueUnreserved(_)
writeValueUnreserved(s) ==
  LET step(d) ==
        (IF isUnreserved(d.r) THEN Take(s, d.size) ELSE percentEscape(Take(s, d.size)))
        \o writeValueUnreserved(Drop(s, d.size))
  IN  IF Len(s) = 0 THEN << >> ELSE step(DecodeRuneInString(s))

\* A variant that passes percent-escapes and reserved characters through
\* under every operator.
writeValueAsReserved(op, s) == writeValueReserved(s)

writeValue(op, s) ==
  IF op = Ch("+") \/ op = Ch("#") THEN writeValueReserved(s) ELSE writeValueUnreserved(s)

\* The loop over the elements of a list without the explode modifier
\* (defined: an element has been written), from what was written before.
RECURSIVE expandList(_, _, _, _)
expandList(op, elems, defined, out) ==
  LET elem(elemValue, c) ==
        IF ~IsValid(elemValue) THEN expandList(op, Tail(elems), defined, out)
        ELSE IF c.err # noError THEN [out |-> out, err |-> c.err]
        ELSE expandList(op, Tail(elems), TRUE,
               out \o (IF defined THEN <<Ch(",")>> ELSE << >>) \o writeValue(op, c.s))
      at(elemValue) == elem(elemValue, coerceString(elemValue))
  IN  IF elems = << >> THEN [out |-> out, err |-> noError]
      ELSE at(followIndirection(elems[1]).v)

\* The callback loop over the pairs of an associative array without explode.
RECURSIVE expandMap(_, _, _, _)
expandMap(op, pairs, defined, out) ==
  LET elem(k, elemValue, c) ==
        IF ~IsValid(elemValue) THEN expandMap(op, Tail(pairs), defined, out)
        ELSE IF c.err # noError THEN [out |-> out, err |-> c.err]
        ELSE expandMap(op, Tail(pairs), TRUE,
               out \o (IF defined THEN <<Ch(",")>> ELSE << >>) \o writeValue(op, k)
                   \o <<Ch(",")>> \o writeValue(op, c.s))
      at(elemValue) == elem(pairs[1].k, elemValue, coerceString(elemValue))
  IN  IF pairs = << >> THEN [out |-> out, err |-> noError]
      ELSE at(followIndirection(pairs[1].v).v)

\* The loop over the elements of a list with the explode modifier.
RECURSIVE explodeList(_, _, _, _, _, _)
explodeList(op, sep, varName, elems, defined, out) ==
  LET elem(elemValue, c) ==
        IF ~IsValid(elemValue) THEN explodeList(op, sep, varName, Tail(elems), defined, out)
        ELSE IF c.err # noError THEN [out |-> out, err |-> c.err]
        ELSE explodeList(op, sep, varName, Tail(elems), TRUE,
               out \o (IF defined THEN <<sep>> ELSE << >>)
                   \o writeVarNamePrefix(op, varName, c.s = << >>) \o writeValue(op, c.s))
      at(elemValue) == elem(elemValue, coerceString(elemValue))
  IN  IF elems = << >> THEN [out |-> out, err |-> noError]
      ELSE at(followIndirection(elems[1]).v)

\* A variant that writes key=value under every operator.
explodePairUnnamed(op, k, s) == writeValue(op, k) \o <<Ch("=")>> \o writeValue(op, s)

\* What the callback of the exploded associative array writes for one pair.
explodePair(op, k, s) ==
  (IF opUsesNames(op) THEN writeVarNamePrefix(op, k, s = << >>)
   ELSE writeValue(op, k) \o <<Ch("=")>>)
  \o writeValue(op, s)

\* The callback loop over the pairs of an associative array with explode.
RECURSIVE explodeMap(_, _, _, _, _)
explodeMap(op, sep, pairs, defined, out) ==
  LET elem(k, elemValue, c) ==
        IF ~IsValid(elemValue) THEN explodeMap(op, sep, Tail(pairs), defined, out)
        ELSE IF c.err # noError THEN [out |-> out, err |-> c.err]
        ELSE explodeMap(op, sep, Tail(pairs), TRUE,
               out \o (IF defined THEN <<sep>> ELSE << >>) \o explodePair(op, k, c.s))
      at(elemValue) == elem(pairs[1].k, elemValue, coerceString(elemValue))
  IN  IF pairs = << >> THEN [out |-> out, err |-> noError]
      ELSE at(followIndirection(pairs[1].v).v)

explode == <<Ch("*")>>

\* What expandVariable writes before the value: the operator ahead of the
\* first variable that is written, the separator ahead of every later one.
writeLead(op, first, sep) ==
  IF first THEN (IF op # noOp /\ op # Ch("+") THEN <<op>> ELSE << >>) ELSE <<sep>>

\* The switch of expandVariable over the kind and the modifier of a value.
expandKind(op, sep, lead, vk, val, varName, modifier) ==
  LET scalar(c) ==
        IF c.err # noError
          THEN [out |-> lead \o writeVarNamePrefix(op, varName, c.s = << >>), err |-> c.err]
          ELSE [out |-> lead \o writeVarNamePrefix(op, varName, c.s = << >>)
                          \o writeValue(op, modify(c.s, modifier)),
                err |-> noError]
      list(empty, pre) ==
        IF empty THEN [out |-> pre, err |-> noError]
        ELSE expandList(op, val.elems, FALSE, pre)
      map(empty, pre) ==
        IF empty THEN [out |-> pre, err |-> noError]
        ELSE expandMap(op, iterateMap(val), FALSE, pre)
      composite(empty) ==
        IF vk = listKind THEN list(empty, lead \o writeVarNamePrefix(op, varName, empty))
        ELSE map(empty, lead \o writeVarNamePrefix(op, varName, empty))
  IN  IF vk = scalarKind THEN scalar(coerceString(val))
      ELSE IF vk \in {listKind, mapKind} /\ modifier # explode THEN composite(isEmpty(val))
      ELSE IF vk = listKind /\ modifier = explode
        THEN explodeList(op, sep, varName, val.elems, FALSE, lead)
      ELSE IF vk = mapKind /\ modifier = explode
        THEN explodeMap(op, sep, iterateMap(val), FALSE, lead)
      ELSE [out |-> lead, err |-> "unreachable"]

\* A variant in which an undefined variable counts as written.
skipUndefinedAsWritten(first) ==
  [out |-> << >>, stillFirst |-> FALSE, err |-> noError, panic |-> FALSE]

\* if vk == 0 { return first, nil }
skipUndefined(first) ==
  [out |-> << >>, stillFirst |-> first, err |-> noError, panic |-> FALSE]

\* expandVariable: out is what it appends, stillFirst and err what it returns;
\* panic tells that it reached a panic("unreachable").
expandVariable(op, first, data, varName, modifier) ==
  LET done(r) ==
        [out |-> r.out, stillFirst |-> FALSE,
         err |-> IF r.err = "unreachable" THEN noError ELSE r.err,
         panic |-> r.err = "unreachable"]
      defined(kv, sep) ==
        IF sep = -1 THEN done([out |-> << >>, err |-> "unreachable"])
        ELSE Only({done(r) : r \in {expandKind(op, sep, writeLead(op, first, sep), kv.vk,
                                               kv.val, varName, modifier)}})
      resolved(kv) ==
        IF kv.vk = undefinedKind THEN skipUndefined(first) ELSE defined(kv, opSep(op))
  IN  Only({resolved(kv) : kv \in {kindOf(lookupKey(data, varName))}})

(***************************************************************************)
(* Expand, as a state machine: the scanner's loop, and inside an           *)
(* expression the loop of expandExpression over its variable list.         *)
(***************************************************************************)

VARIABLES
  template,    \* the template argument
  data,        \* reflect.ValueOf(data)
  i,           \* the scan offset into template
  sb,          \* the bytes written to the strings.Builder
  firstError,  \* the error Expand will return
  pc,          \* "scan", "expr" (inside expandExpression's loop), "done", "panic"
  op,          \* expandExpression: the operator
  rest,        \* expandExpression: the part of the expression not yet parsed
  first,       \* expandExpression: no variable has written anything yet
  exprLen,     \* expandExpression: the length of the expression, braces included
  errs,        \* history: every error recorded so far, in scan order
  call         \* history: the call of expandVariable the last step made, if any

vars == <<template, data, i, sb, firstError, pc, op, rest, first, exprLen, errs, call>>

\* The descriptor cache and the goroutines that call describeStruct.
VARIABLES
  descriptors,  \* the sync.Map: for each struct type << >>, or <<sd>> for an entry sd
  goroutines,   \* for each goroutine, where it is in describeStruct and its locals
  stores,       \* history: for each struct type, how many times Store was called
  published     \* history: for each struct type, what the first Store published

cvars == <<descriptors, goroutines, stores, published>>

\* An error, by its message and the offset of the template text it quotes.
Error(msg, at) == [msg |-> msg, at |-> at]

nil == Error(noError, -1)

noCall ==
  [made |-> FALSE, op |-> noOp, first |-> FALSE, varName |-> << >>, modifier |-> << >>,
   out |-> << >>, stillFirst |-> FALSE, err |-> noError]

Called(o, f, varName, modifier, r) ==
  [made |-> TRUE, op |-> o, first |-> f, varName |-> varName, modifier |-> modifier,
   out |-> r.out, stillFirst |-> r.stillFirst, err |-> r.err]

\* A variant that keeps the last error rather than the first.
recordLastError(fe, err) == err

\* if err != nil && firstError == nil { firstError = ... }
recordError(fe, err) == IF fe = nil THEN err ELSE fe

\* The rune at the scan offset.
Cur == DecodeRuneInString(Drop(template, i))

Scanning == pc = "scan" /\ i < Len(template)

\* A variant that writes nothing when the expression stops.
stopExpressionSilent(out, msg, len, o) ==
  [out |-> << >>, err |-> msg, exprLen |-> len, op |-> o, rest |-> << >>, first |-> TRUE,
   call |-> noCall, panic |-> FALSE]

\* What expandExpression returns when it stops: out is what it wrote.
stopExpression(out, msg, len, o) ==
  [out |-> out, err |-> msg, exprLen |-> len, op |-> o, rest |-> << >>, first |-> TRUE,
   call |-> noCall, panic |-> FALSE]

\* What expandExpression does after a call x of expandVariable: on an error
\* it writes the rest of the expression and returns, else its loop goes on.
afterVariable(x, len, o, f, spec) ==
  [out |-> x.out \o (IF x.err # noError THEN writeRemainingExpression(o, spec.rest)
                     ELSE << >>),
   err |-> x.err, exprLen |-> len, op |-> o, rest |-> spec.rest, first |-> x.stillFirst,
   call |-> Called(o, f, spec.varName, spec.modifier, x), panic |-> x.panic]

\* if len(rest) > 0 && strings.IndexByte("+#./;?&"+reservedOps, rest[0]) != -1
cutOperator(body) ==
  IF Len(body) > 0 /\ body[1] \in validOps \cup reservedOps
    THEN [op |-> body[1], rest |-> Tail(body)]
    ELSE [op |-> noOp, rest |-> body]

\* expandExpression from the check for an empty expression to the expansion
\* of the first variable; clause is expr[:exprLen].
expandFirstVariable(clause, o, r0, d) ==
  IF r0 = << >> THEN stopExpression(clause, "empty expression", Len(clause), o)
  ELSE IF o \in reservedOps THEN stopExpression(clause, "unknown operator", Len(clause), o)
  ELSE Only({
         IF spec.varName = << >>
           THEN stopExpression(clause, "missing variable name", Len(clause), o)
           ELSE Only({afterVariable(x, Len(clause), o, TRUE, spec) :
                        x \in {expandVariable(o, TRUE, d, spec.varName, spec.modifier)}}) :
         spec \in {cutVarSpec(r0)}})

\* What expandExpression does up to the expansion of its first variable:
\* out is what it writes, err what it returns (then with exprLen), and
\* otherwise the state in which its loop over the later variables starts.
expandExpressionHead(expr, d) ==
  Only({
    IF end < 0 THEN stopExpression(expr, "unterminated expression", Len(expr), noOp)
    ELSE Only({expandFirstVariable(Take(expr, end + 1), h.op, h.rest, d) :
                 h \in {cutOperator(SubSeq(expr, 2, end))}}) :
    end \in {IndexByte(expr, Ch("}"))}})

\* One iteration of the loop of expandExpression over the later variables.
expandExpressionNext(o, f, r, d, len) ==
  IF r[1] # Ch(",")
    THEN stopExpression(writeRemainingExpression(o, r), "unexpected character", len, o)
    ELSE Only({
           IF spec.varName = << >>
             THEN stopExpression(writeRemainingExpression(o, spec.rest),
                                 "missing variable name", len, o)
             ELSE Only({afterVariable(x, len, o, f, spec) :
                          x \in {expandVariable(o, f, d, spec.varName, spec.modifier)}}) :
           spec \in {cutVarSpec(Tail(r))}})

\* case isLiteral(c)
Literal ==
  /\ UNCHANGED cvars
  /\ Scanning
  /\ isLiteral(Cur.r)
  /\ LET chunk == SubSeq(template, i + 1, i + Cur.size)
     IN  sb' = sb \o (IF literalNeedsPercentEscape(Cur.r) THEN percentEscape(chunk)
                      ELSE chunk)
  /\ i' = i + Cur.size
  /\ call' = noCall
  /\ UNCHANGED <<template, data, firstError, pc, op, rest, first, exprLen, errs>>

\* case c == '{': expandExpression up to its first variable.
ExprBegin ==
  /\ UNCHANGED cvars
  /\ Scanning
  /\ Cur.r = Ch("{")
  /\ \E h \in {expandExpressionHead(Drop(template, i), data)} :
         /\ sb' = sb \o h.out
         /\ call' = h.call
         /\ op' = h.op
         /\ exprLen' = h.exprLen
         /\ IF h.panic THEN
              /\ pc' = "panic"
              /\ UNCHANGED <<i, firstError, errs, rest, first>>
            ELSE IF h.err # noError THEN
              /\ firstError' = recordError(firstError, Error(h.err, i))
              /\ errs' = Append(errs, Error(h.err, i))
              /\ i' = i + h.exprLen
              /\ UNCHANGED <<pc, rest, first>>
            ELSE
              /\ pc' = "expr"
              /\ rest' = h.rest
              /\ first' = h.first
              /\ UNCHANGED <<i, firstError, errs>>
  /\ UNCHANGED <<template, data>>

\* for len(rest) > 0 { ... }: the next variable of the expression.
ExprNext ==
  /\ UNCHANGED cvars
  /\ pc = "expr"
  /\ Len(rest) > 0
  /\ \E n \in {expandExpressionNext(op, first, rest, data, exprLen)} :
         /\ sb' = sb \o n.out
         /\ call' = n.call
         /\ IF n.panic THEN
              /\ pc' = "panic"
              /\ UNCHANGED <<i, firstError, errs, rest, first>>
            ELSE IF n.err # noError THEN
              /\ firstError' = recordError(firstError, Error(n.err, i))
              /\ errs' = Append(errs, Error(n.err, i))
              /\ i' = i + exprLen
              /\ pc' = "scan"
              /\ UNCHANGED <<rest, first>>
            ELSE
              /\ rest' = n.rest
              /\ first' = n.first
              /\ UNCHANGED <<i, firstError, errs, pc>>
  /\ UNCHANGED <<template, data, op, exprLen>>

\* return exprLen, nil
ExprEnd ==
  /\ UNCHANGED cvars
  /\ pc = "expr"
  /\ Len(rest) = 0
  /\ i' = i + exprLen
  /\ pc' = "scan"
  /\ call' = noCall
  /\ UNCHANGED <<template, data, sb, firstError, op, rest, first, exprLen, errs>>

\* case c == '%'
Percent ==
  /\ UNCHANGED cvars
  /\ Scanning
  /\ ~isLiteral(Cur.r) /\ Cur.r = Ch("%")
  /\ \E p \in {cutPercentEscape(Drop(template, i))} :
         /\ firstError' = IF ~p.ok
                            THEN recordError(firstError, Error("invalid percent escape", i))
                            ELSE firstError
         /\ errs' = IF ~p.ok THEN Append(errs, Error("invalid percent escape", i)) ELSE errs
         /\ i' = i + Len(p.pct)
  /\ call' = noCall
  /\ UNCHANGED <<template, data, sb, pc, op, rest, first, exprLen>>

\* default: an illegal character
Illegal ==
  /\ UNCHANGED cvars
  /\ Scanning
  /\ ~isLiteral(Cur.r) /\ Cur.r # Ch("{") /\ Cur.r # Ch("%")
  /\ LET err == Error("illegal character", i)
     IN  /\ firstError' = recordError(firstError, err)
         /\ errs' = Append(errs, err)
  /\ i' = i + Cur.size
  /\ call' = noCall
  /\ UNCHANGED <<template, data, sb, pc, op, rest, first, exprLen>>

\* return sb.String(), firstError
Return ==
  /\ UNCHANGED cvars
  /\ pc = "scan"
  /\ i >= Len(template)
  /\ pc' = "done"
  /\ call' = noCall
  /\ UNCHANGED <<template, data, i, sb, firstError, op, rest, first, exprLen, errs>>

(***************************************************************************)
(* The inputs.                                                             *)
(***************************************************************************)

\* Bounds.
MaxLit == 3    \* the length of a free-form template
MaxStr == 3    \* the length of a scalar value
MaxElems == 2  \* the number of elements of a list
MaxKeys == 2   \* the number of pairs of an associative array

\* All strings of at most n bytes over an alphabet.
StringsUpTo(alphabet, n) == UNION {[1..k -> alphabet] : k \in 0..n}

\* All sequences of at most n members of a set.
SeqsUpTo(S, n) == UNION {[1..k -> S] : k \in 0..n}

\* The two bytes of U+00E9 in UTF-8.
EAcute == <<195, 169>>

\* Free-form templates: literal text with unreserved, reserved, forbidden and
\* non-ASCII characters, percent-escapes and (short) expressions.
ScanAlphabet == Chars(<<"a", "/", "apostrophe", " ", "%", "{", "}">>) \cup {195, 169}

ScanTemplates == StringsUpTo(ScanAlphabet, MaxLit)

\* Scalar values: unreserved and reserved characters, percent-escapes whole and
\* broken, and a non-ASCII character.
ValueAlphabet == Chars(<<"x", "/", "%", "4">>) \cup {195, 169}

ScalarValues == {StringV(q) : q \in StringsUpTo(ValueAlphabet, MaxStr)}

\* The variables of the expression templates: a holds the value under test,
\* b a one-letter string, and u is in no data.
VarA == Str(<<"a">>)
VarB == Str(<<"b">>)
VarU == Str(<<"u">>)

Ops == validOps \cup {noOp}

OpText(o) == IF o = noOp THEN << >> ELSE <<o>>

RECURSIVE JoinWith(_, _)
JoinWith(parts, sep) ==
  IF parts = << >> THEN << >>
  ELSE IF Len(parts) = 1 THEN parts[1]
  ELSE parts[1] \o sep \o JoinWith(Tail(parts), sep)

ExprTemplate(o, specs) ==
  <<Ch("{")>> \o OpText(o) \o JoinWith(specs, <<Ch(",")>>) \o <<Ch("}")>>

\* The variable lists of the expression templates.
VarLists ==
  LET a == VarA
      ax == VarA \o explode
      b == VarB
      u == VarU
  IN  {<<a>>, <<ax>>, <<u>>, <<u, a>>, <<u, ax>>, <<a, b>>, <<ax, b>>, <<b, a>>, <<b, ax>>,
       <<u, u>>, <<a, u, b>>, <<ax, u, b>>}

ExprTemplates == {ExprTemplate(o, l) : o \in Ops, l \in VarLists}

\* The elements of lists and the values of pairs: []any and map[string]any
\* hold each in an interface, which is nil for an undefined one.
Elems ==
  {NilInterface, InterfaceV(StringV(<< >>)), InterfaceV(StringV(Str(<<"x">>))),
   InterfaceV(StringV(Str(<<";">>)))}

PairValues ==
  {NilInterface, InterfaceV(StringV(<< >>)), InterfaceV(StringV(Str(<<";">>)))}

ListValues == {SliceV(q) : q \in SeqsUpTo(Elems, MaxElems)}

\* The keys of maps and the fields of structs; "k" sorts after "j&".
KeyPool == <<Str(<<"k">>), Str(<<"j", "&">>), Str(<<"i">>), Str(<<"h">>)>>
FieldPool == <<Str(<<"K">>), Str(<<"J">>), Str(<<"I">>), Str(<<"H">>)>>

\* The sequences without repetition of at most MaxKeys of the first MaxKeys
\* members of a pool: every order in which MapKeys may return the keys of a
\* map, and every order in which a struct may declare its fields.
Orders(pool) ==
  {q \in SeqsUpTo({pool[k] : k \in 1..MaxKeys}, MaxKeys) :
     \A m, n \in 1..Len(q) : m # n => q[m] # q[n]}

MapValues ==
  UNION {{MapV(keys, vs) : vs \in {q \in SeqsUpTo(PairValues, MaxKeys) : Len(q) = Len(keys)}} :
           keys \in Orders(KeyPool)}

NoTags(names) == [k \in 1..Len(names) |-> << >>]

StructValues ==
  UNION {{StructV(names, NoTags(names), vs) :
            vs \in {q \in SeqsUpTo(PairValues, MaxKeys) : Len(q) = Len(names)}} :
           names \in Orders(FieldPool)}

\* A value whose MarshalText fails.
FailingV == [StringV(Str(<<"x">>)) EXCEPT !.impl = {"TextMarshaler"}, !.fails = TRUE]

\* The data roots: map[string]any{"a": v, "b": "y"}, the struct with the
\* fields A and B, and a pointer to the map.
MapRoot(v) == MapV(<<VarA, VarB>>, <<v, InterfaceV(StringV(Str(<<"y">>)))>>)

StructRoot(v) ==
  StructV(<<Str(<<"A">>), Str(<<"B">>)>>, <<<< >>, << >>>>, <<v, StringV(Str(<<"y">>))>>)

\* The values of a that the expression templates are expanded with.
TestValues ==
  ListValues \cup MapValues \cup StructValues
  \cup {InterfaceV(v) : v \in {StringV(<< >>), StringV(Str(<<"x">>)), FailingV,
                               PointerV(StringV(Str(<<"x">>))), NilPointer}}
  \cup {NilInterface}

ExprData ==
  {MapRoot(v) : v \in TestValues}
  \cup {StructRoot(v) : v \in {NilInterface, InterfaceV(StringV(Str(<<"x">>))),
                               SliceV(<<NilInterface, InterfaceV(StringV(Str(<<"x">>)))>>)}}
  \cup {PointerV(MapRoot(InterfaceV(StringV(Str(<<"x">>))))), NilPointer, Invalid}

\* One scalar under each operator.
ScalarTemplates == {ExprTemplate(o, <<VarA>>) : o \in Ops}

\* The prefix lengths of the templates with a prefix modifier, and the
\* modifier :n of a length below 100.
PrefixLengths == {1, 2, 10}

PrefixModifier(n) ==
  <<Ch(":")>> \o (IF n < 10 THEN << >> ELSE <<Ch("0") + (n \div 10)>>) \o <<Ch("0") + (n % 10)>>

\* One scalar with a prefix modifier, under an operator of each encoding and
\* a named one.
PrefixTemplates ==
  {ExprTemplate(o, <<VarA \o PrefixModifier(n)>>) :
     o \in {noOp, Ch("+"), Ch(";")}, n \in PrefixLengths}

\* Templates with an expression under a reserved operator, closed or not,
\* with and without text around it.
ReservedTemplates ==
  {pre \o <<Ch("{"), r>> \o body \o close \o post :
     r \in reservedOps,
     body \in {<< >>, VarA, JoinWith(<<VarA, VarB>>, <<Ch(",")>>)},
     close \in {<< >>, <<Ch("}")>>},
     pre \in {<< >>, <<Ch("x")>>},
     post \in {<< >>, <<Ch("x")>>}}

\* Templates whose expression goes wrong after its first variable: a name is
\* missing after a comma, or a character stands where a comma was expected.
MalformedTails ==
  {Str(<<",">>), Str(<<",", ",", "b">>), Str(<<",", "b", ",">>), Str(<<"!">>),
   Str(<<"!", "b">>), Str(<<",", "b", "!">>), Str(<<",", "!">>), Str(<<":", "0">>)}

MalformedTemplates ==
  {<<Ch("{")>> \o o \o VarA \o tail \o <<Ch("}")>> \o post :
     o \in {<< >>, <<Ch("+")>>, <<Ch("?")>>},
     tail \in MalformedTails,
     post \in {<< >>, <<Ch("x")>>}}

\* Keys that are not plain names: percent signs with and without hex digits
\* after them, a space, a brace, a quote and a non-ASCII character.
AwkwardKeys ==
  {Str(<<"%">>), Str(<<"%", "4">>), Str(<<"%", "4", "a">>), Str(<<"%", "x", "4">>),
   Str(<<" ">>), Str(<<"{">>), Str(<<"dquote", "k">>), EAcute}

\* map[string]any{"a": map[string]any{key: value}}, a value being a letter, a
\* percent sign, empty, or a line feed and a bar; and the map that holds a
\* value under the name %4a.
AwkwardData ==
  {MapRoot(InterfaceV(MapV(<<k>>, <<InterfaceV(StringV(v))>>))) :
     k \in AwkwardKeys, v \in {Str(<<"x">>), Str(<<"%">>), << >>, <<10, Ch("|")>>}}
  \cup {MapV(<<Str(<<"%", "4", "a">>), VarA>>,
              <<InterfaceV(StringV(Str(<<"x">>))), InterfaceV(StringV(Str(<<"<">>)))>>)}

\* An associative array with and without explode under a plain, a reserved
\* and two named operators, and a variable whose name is a percent-escape.
AwkwardTemplates ==
  {ExprTemplate(o, <<VarA \o m>>) :
     o \in {noOp, Ch("+"), Ch(";"), Ch("?")}, m \in {<< >>, explode}}
  \cup {ExprTemplate(o, <<Str(<<"%", "4", "a">>), VarA>>) : o \in {noOp, Ch("+"), Ch("?")}}

\* Templates of a percent sign and two characters, hex digits or not, one
\* byte long or two, with and without a character after them.
PercentTemplates ==
  {<<Ch("%")>> \o c1 \o c2 \o post :
     c1 \in {<<Ch("4")>>, <<Ch("x")>>, EAcute},
     c2 \in {<<Ch("4")>>, <<Ch("x")>>, EAcute},
     post \in {<< >>, <<Ch("x")>>}}

\* Values of every shape: a string, an int, a slice, an array, a map with
\* string keys, a map with int keys and a struct, each of one element x.
Shapes ==
  LET x == InterfaceV(StringV(Str(<<"x">>)))
  IN  {StringV(Str(<<"s">>)), PlainV("Int", Str(<<"s">>)),
       [SliceV(<<x>>) EXCEPT !.sprint = Str(<<"s">>)],
       [SliceV(<<x>>) EXCEPT !.kind = "Array", !.sprint = Str(<<"s">>)],
       [MapV(<<Str(<<"k">>)>>, <<x>>) EXCEPT !.sprint = Str(<<"s">>)],
       [MapV(<<Str(<<"1">>)>>, <<x>>) EXCEPT !.sprint = Str(<<"s">>), !.keyKind = "Int"],
       [StructV(<<Str(<<"K">>)>>, <<<< >>>>, <<x>>) EXCEPT !.sprint = Str(<<"s">>)]}

\* The sets of rendering interfaces a type of the values implements.
Capabilities ==
  {{}, {"TextMarshaler"}, {"Stringer"}, {"Formatter"}, {"error"}, {"TextMarshaler", "Stringer"}}

\* The values of each shape and set of capabilities, which print as s and
\* marshal as t: held directly, in an interface, and behind a pointer.
KindValues ==
  LET typed == {[v EXCEPT !.impl = c, !.text = Str(<<"t">>)] : v \in Shapes, c \in Capabilities}
  IN  typed \cup {InterfaceV(v) : v \in typed} \cup {InterfaceV(PointerV(v)) : v \in typed}

KindTemplates == {ExprTemplate(noOp, <<VarA>>), ExprTemplate(noOp, <<VarA \o explode>>)}

\* The data the free-form templates are expanded with: a map, and no data.
ScanData == {MapRoot(InterfaceV(StringV(Str(<<"x", "/">>)))), Invalid}

Inputs ==
  {[t |-> t, d |-> d] :
     t \in ScanTemplates \cup ReservedTemplates \cup PercentTemplates, d \in ScanData}
  \cup {[t |-> t, d |-> d] : t \in ExprTemplates, d \in ExprData}
  \cup {[t |-> t, d |-> MapRoot(v)] :
           t \in ScalarTemplates \cup PrefixTemplates, v \in ScalarValues}
  \cup {[t |-> t, d |-> MapRoot(v)] : t \in KindTemplates, v \in KindValues}
  \cup {[t |-> t, d |-> MapRoot(StringV(Str(<<"x">>)))] : t \in MalformedTemplates}
  \cup {[t |-> t, d |-> d] : t \in AwkwardTemplates, d \in AwkwardData}

(***************************************************************************)
(* describeStruct under concurrent calls: each goroutine looks a struct     *)
(* type up in the cache and, on a miss, builds the descriptor field by      *)
(* field in a local and stores it.                                          *)
(***************************************************************************)

NumGoroutines == 2

Goroutines == 1..NumGoroutines

\* The struct types the goroutines describe: one with two plain fields, and
\* one with an unexported field, a tag that repeats a name and a tag "-".
StructTypes ==
  <<StructV(<<Str(<<"K">>), Str(<<"J">>)>>, <<<< >>, << >>>>, << >>),
    StructV(<<Str(<<"K">>), Str(<<"x">>), Str(<<"J">>), Str(<<"I">>)>>,
            <<<< >>, << >>, Str(<<"k">>), Str(<<"-">>)>>, << >>)>>

NumField(t) == Len(StructTypes[t].keys)

\* The local sd of describeStruct after the loop has handled n fields.
populated(t, n) ==
  describeStruct([StructTypes[t] EXCEPT
                    !.keys = [k \in 1..NumField(t) |->
                                IF k <= n THEN StructTypes[t].keys[k] ELSE << >>]])

\* A variant that stores the descriptor while the loop is still running.
storeReadyEarly(t, n) == n >= 1

\* The loop over the fields is done: descriptors.Store is next.
storeReady(t, n) == n = NumField(t)

idle == [pc |-> "idle", t |-> 0, n |-> 0, sd |-> << >>, missed |-> FALSE]

CacheStart ==
  /\ descriptors = [t \in 1..Len(StructTypes) |-> << >>]
  /\ goroutines = [g \in Goroutines |-> idle]
  /\ stores = [t \in 1..Len(StructTypes) |-> 0]
  /\ published = [t \in 1..Len(StructTypes) |-> << >>]

\* A goroutine calls describeStruct(t).
DescribeCall ==
  /\ \E g \in Goroutines, t \in 1..Len(StructTypes) :
       /\ goroutines[g].pc = "idle"
       /\ goroutines' = [goroutines EXCEPT ![g] = [idle EXCEPT !.pc = "load", !.t = t]]
  /\ UNCHANGED <<descriptors, stores, published>>
  /\ UNCHANGED vars

\* if sd, ok := descriptors.Load(t); ok { return sd }, else sd := structDescriptor{...}
DescribeLoad ==
  /\ \E g \in Goroutines :
       /\ goroutines[g].pc = "load"
       /\ goroutines' =
            [goroutines EXCEPT ![g] =
               IF descriptors[goroutines[g].t] # << >>
                 THEN [@ EXCEPT !.pc = "done", !.sd = descriptors[goroutines[g].t]]
                 ELSE [@ EXCEPT !.pc = "build", !.missed = TRUE,
                                !.sd = <<populated(goroutines[g].t, 0)>>]]
  /\ UNCHANGED <<descriptors, stores, published>>
  /\ UNCHANGED vars

\* for i := range sd.fieldNames { ... }: one field.
DescribeField ==
  /\ \E g \in Goroutines :
       /\ goroutines[g].pc = "build"
       /\ goroutines[g].n < NumField(goroutines[g].t)
       /\ goroutines' =
            [goroutines EXCEPT ![g] =
               [@ EXCEPT !.n = @ + 1,
                         !.sd = <<populated(goroutines[g].t, goroutines[g].n + 1)>>]]
  /\ UNCHANGED <<descriptors, stores, published>>
  /\ UNCHANGED vars

\* descriptors.Store(t, sd); return sd
DescribeStore ==
  /\ \E g \in Goroutines :
       /\ goroutines[g].pc = "build"
       /\ storeReady(goroutines[g].t, goroutines[g].n)
       /\ descriptors' = [descriptors EXCEPT ![goroutines[g].t] = goroutines[g].sd]
       /\ stores' = [stores EXCEPT ![goroutines[g].t] = @ + 1]
       /\ published' = [published EXCEPT ![goroutines[g].t] =
                                           IF @ = << >> THEN goroutines[g].sd ELSE @]
       /\ goroutines' = [goroutines EXCEPT ![g] = [@ EXCEPT !.pc = "done"]]
  /\ UNCHANGED vars

Init ==
  /\ CacheStart
  /\ \E in \in Inputs : template = in.t /\ data = in.d
  /\ i = 0
  /\ sb = << >>
  /\ firstError = nil
  /\ pc = "scan"
  /\ op = noOp
  /\ rest = << >>
  /\ first = TRUE
  /\ exprLen = 0
  /\ errs = << >>
  /\ call = noCall

Next == Literal \/ ExprBegin \/ ExprNext \/ ExprEnd \/ Percent \/ Illegal \/ Return

Spec == Init /\ [][Next]_<<vars, cvars>>

\* The goroutines of the cache, while no expansion is scanning.
CacheInit ==
  /\ CacheStart
  /\ template = << >> /\ data = Invalid /\ i = 0 /\ sb = << >> /\ firstError = nil
  /\ pc = "done" /\ op = noOp /\ rest = << >> /\ first = TRUE /\ exprLen = 0
  /\ errs = << >> /\ call = noCall

CacheNext == DescribeCall \/ DescribeLoad \/ DescribeField \/ DescribeStore

CacheSpec == CacheInit /\ [][CacheNext]_<<vars, cvars>>

(***************************************************************************)
(* Properties.                                                             *)
(***************************************************************************)

Returned == pc = "done"

\* The bytes of a string, as a set.
Bytes(s) == {s[k] : k \in 1..Len(s)}

\* The template is one expression with operator o over the variable list l.
IsExpr(o, l) == template = ExprTemplate(o, l)

\* C1: Expand returns a non-nil error exactly when an error was recorded
\* during the scan, the error it returns is the first one recorded, and
\* whatever was recorded the scan neither stops nor panics before the end of
\* the template, where Expand returns.
C1_FirstError ==
  /\ (firstError = nil) <=> (errs = << >>)
  /\ errs # << >> => firstError = errs[1]
  /\ pc \in {"scan", "expr", "done"}
  /\ i <= Len(template)
  /\ Returned => i = Len(template)
  /\ \A k \in 1..Len(errs) : errs[k].at < i /\ (k > 1 => errs[k - 1].at < errs[k].at)

\* Two different errors were recorded, text was written after the first, and
\* Expand returned the first.
C1_Witness ==
  /\ Returned
  /\ Len(errs) >= 2
  /\ errs[1].msg # errs[2].msg
  /\ firstError = errs[1]
  /\ sb # << >>
  /\ template[Len(template)] = sb[Len(sb)]

\* The reserved set as the literal rule is stated with it.
ReservedWithApostrophe ==
  Chars(<<":", "/", "?", "#", "[", "]", "@", "!", "$", "&", "apostrophe", "(", ")",
          "*", "+", ",", ";", "=">>)

UnreservedSet ==
  (Ch("A")..Ch("Z")) \cup (Ch("a")..Ch("z")) \cup (Ch("0")..Ch("9"))
  \cup Chars(<<"-", ".", "_", "~">>)

\* C2 as stated: a template of unreserved and reserved characters only, the
\* apostrophe among the reserved, is returned unchanged with a nil error.
C2_Original ==
  (Returned /\ Bytes(template) \subseteq UnreservedSet \cup ReservedWithApostrophe)
    => (sb = template /\ firstError = nil)

\* C2: a template of unreserved characters and of reserved characters other
\* than the apostrophe is returned unchanged with a nil error, whatever the
\* data.
C2_LiteralUnchanged ==
  (Returned
   /\ Bytes(template) \subseteq UnreservedSet \cup (ReservedWithApostrophe \ {Ch("apostrophe")}))
    => (sb = template /\ firstError = nil)

\* A template with an unreserved and a reserved character was returned.
C2_Witness ==
  /\ Returned
  /\ Len(template) = MaxLit
  /\ Bytes(template) = Chars(<<"a", "/">>)
  /\ sb = template
  /\ data = Invalid

\* The variable has no value in the data: it is u, which no data holds, or
\* the data is nil, or it is a whose value is nil.
NoValue(varName) ==
  \/ varName = VarU
  \/ data \in {Invalid, NilPointer}
  \/ (varName = VarA /\ lookupKey(data, VarA) \in {NilInterface, InterfaceV(NilPointer)})

\* C3: a variable that resolves to Undefined appends nothing and leaves the
\* first flag as it was, without an error; so an undefined variable ahead of
\* a defined one changes nothing of what is written for the defined one, and
\* an expression of undefined variables only writes nothing.
C3_Undefined ==
  /\ (call.made /\ NoValue(call.varName))
       => (call.out = << >> /\ call.stillFirst = call.first /\ call.err = noError
           /\ first = call.first)
  /\ \A o \in Ops, m \in {<< >>, explode} :
       (Returned /\ IsExpr(o, <<VarU, VarA \o m>>))
         => sb = expandVariable(o, TRUE, data, VarA, m).out
  /\ (Returned /\ template \in ExprTemplates
      /\ \A v \in {VarA, VarB, VarU} : v[1] \in Bytes(template) => NoValue(v))
       => (sb = << >> /\ firstError = nil)

\* The undefined u stood ahead of a, and the prefix was written for a.
C3_Witness ==
  /\ Returned
  /\ IsExpr(Ch("?"), <<VarU, VarA>>)
  /\ sb = Str(<<"?", "a", "=", "x">>)

(***************************************************************************)
(* The punctuation, names and values of the units an expression writes.    *)
(***************************************************************************)

\* The leading prefix and the separator of each operator, as tabulated.
PrefixTable(o) == IF o \in Chars(<<".", "/", ";", "?", "&", "#">>) THEN <<o>> ELSE << >>

SepTable(o) ==
  IF o \in Chars(<<".", "/", ";">>) THEN o
  ELSE IF o \in Chars(<<"?", "&">>) THEN Ch("&")
  ELSE Ch(",")

Named(o) == o \in Chars(<<";", "?", "&">>)

\* What stands ahead of the units of the last call.
Lead == IF call.first THEN PrefixTable(call.op) ELSE <<SepTable(call.op)>>

\* name= ahead of a unit under a named operator.
NameEq(o, name, empty) ==
  IF Named(o)
    THEN writeVarName(name) \o (IF empty /\ o = Ch(";") THEN << >> ELSE <<Ch("=")>>)
    ELSE << >>

\* The kind and the value of the variable of the last call.
Resolved == kindOf(lookupKey(data, call.varName))

Expanded(vk) == call.made /\ call.err = noError /\ Resolved.vk = vk

\* The last call wrote a scalar whole: its variable has no prefix modifier.
ScalarWritten == Expanded(scalarKind) /\ call.modifier \in {<< >>, explode}

IsDefined(e) == IsValid(followIndirection(e).v)

TextOf(e) == coerceString(followIndirection(e).v).s

\* The strings of the defined elements of a list.
ElemTexts(val) ==
  LET d == SelectSeq(val.elems, IsDefined)
  IN  [k \in 1..Len(d) |-> TextOf(d[k])]

\* The keys of a native map in ascending order, of a record in declared order
\* (the fields of the records here are exported and untagged).
OrderedKeys(val) ==
  IF val.kind = "Map"
    THEN LET ks == Bytes(val.keys)
         IN  [j \in 1..Cardinality(ks) |->
                CHOOSE k \in ks : Cardinality({x \in ks : StrLess(x, k)}) = j - 1]
    ELSE [j \in 1..Len(val.keys) |-> <<val.keys[j][1] + 32>> \o Tail(val.keys[j])]

OrderedPairs(val) ==
  LET ks == OrderedKeys(val)
  IN  [j \in 1..Len(ks) |->
         [k |-> ks[j],
          v |-> IF val.kind = "Map" THEN val.elems[MapIndexOf(val, ks[j])] ELSE val.elems[j]]]

PairDefined(p) == IsDefined(p.v)

DefinedPairs(val) == SelectSeq(OrderedPairs(val), PairDefined)

\* The number of units the variable of the last call emits: none when it is
\* undefined, one for a scalar and for a composite without explode, and one
\* for each defined element or pair with explode.
Units ==
  LET r == Resolved
  IN  IF r.vk = undefinedKind THEN 0
      ELSE IF r.vk = scalarKind \/ call.modifier # explode THEN 1
      ELSE IF r.vk = listKind THEN Len(ElemTexts(r.val))
      ELSE Len(DefinedPairs(r.val))

\* C4: the punctuation of an expression goes with the variables it emits: a
\* variable that emits no unit writes nothing, the first variable that emits
\* one writes the operator's prefix ahead of it, and every later one the
\* operator's separator, by the table of prefixes and separators.
C4_Punctuation ==
  (call.made /\ call.err = noError)
    => /\ Units = 0 => (call.out = << >> /\ call.stillFirst = call.first)
       /\ Units > 0 => (Take(call.out, Len(Lead)) = Lead /\ ~call.stillFirst)

\* The value of the last call is empty: a zero-length string, a list with no
\* defined element, an associative array with no defined pair.
ValueEmpty ==
  LET r == Resolved
  IN  IF r.vk = scalarKind THEN TextOf(r.val) = << >>
      ELSE IF r.vk = listKind THEN ElemTexts(r.val) = << >>
      ELSE DefinedPairs(r.val) = << >>

\* C5: under a named operator (; ? &) a scalar and a composite without
\* explode are written as the name, then = unless the value is empty and the
\* operator is ; and then the value, and each unit of an exploded composite
\* likewise (an exploded pair under its key); under the other operators a
\* scalar and a list are written without a name and without =.
C5_Names ==
  /\ \A o \in Ops : Named(o) <=> opUsesNames(o)
  /\ (call.made /\ call.err = noError /\ Resolved.vk # undefinedKind
      /\ call.modifier \in {<< >>, explode})
       => LET r == Resolved
              o == call.op
              texts == ElemTexts(r.val)
              pairs == DefinedPairs(r.val)
              start == Lead \o NameEq(o, call.varName, ValueEmpty)
          IN  IF r.vk = listKind /\ call.modifier = explode
                THEN call.out = Lead \o JoinWith(
                       [k \in 1..Len(texts) |->
                          NameEq(o, call.varName, texts[k] = << >>) \o writeValue(o, texts[k])],
                       <<SepTable(o)>>)
              ELSE IF r.vk = mapKind /\ call.modifier = explode
                THEN Named(o) => call.out = Lead \o JoinWith(
                       [k \in 1..Len(pairs) |->
                          NameEq(o, pairs[k].k, TextOf(pairs[k].v) = << >>)
                          \o writeValue(o, TextOf(pairs[k].v))],
                       <<SepTable(o)>>)
              ELSE IF r.vk = scalarKind
                THEN call.out = start \o writeValue(o, TextOf(r.val))
              ELSE IF ValueEmpty THEN call.out = start
              ELSE /\ Take(call.out, Len(start)) = start
                   /\ r.vk = listKind
                        => call.out = start \o JoinWith(
                             [k \in 1..Len(texts) |-> writeValue(o, texts[k])], <<Ch(",")>>)

HexDigits ==
  Str(<<"0", "1", "2", "3", "4", "5", "6", "7", "8", "9", "A", "B", "C", "D", "E", "F">>)

\* The characters an operator copies unescaped.
Allowed(o) ==
  IF o \in Chars(<<"+", "#">>) THEN UnreservedSet \cup ReservedWithApostrophe
  ELSE UnreservedSet

\* s starts with a well-formed percent-escape.
TripletAt(s) ==
  /\ Len(s) >= 3
  /\ s[1] = Ch("%")
  /\ \A k \in 2..3 : s[k] \in Bytes(HexDigits) \cup (Ch("a")..Ch("f"))

\* The encoding of a value byte by byte: an allowed character is copied, and
\* every other byte is written as %XX; with pass, a well-formed
\* percent-escape is copied.
RECURSIVE EncodeBytes(_, _, _)
EncodeBytes(allowed, pass, s) ==
  IF s = << >> THEN << >>
  ELSE IF pass /\ TripletAt(s) THEN Take(s, 3) \o EncodeBytes(allowed, pass, Drop(s, 3))
  ELSE (IF s[1] \in allowed THEN <<s[1]>>
        ELSE <<Ch("%"), HexDigits[(s[1] \div 16) + 1], HexDigits[(s[1] % 16) + 1]>>)
       \o EncodeBytes(allowed, pass, Tail(s))

\* What stands ahead of the value of the scalar of the last call.
ScalarStart == Lead \o NameEq(call.op, call.varName, TextOf(Resolved.val) = << >>)

\* C6 as stated: every character outside the set an operator copies is
\* percent-encoded, the % of a percent-escape under + and # included.
C6_Original ==
  ScalarWritten
    => call.out = ScalarStart
                  \o EncodeBytes(Allowed(call.op), FALSE, TextOf(Resolved.val))

\* C6: a value is written with the unreserved characters copied, and under +
\* and # the reserved characters and the well-formed percent-escapes too;
\* every other character is written byte by byte as upper-case %XX, the
\* reserved characters among them under the other operators.
C6_Encoding ==
  ScalarWritten
    => call.out = ScalarStart
                  \o EncodeBytes(Allowed(call.op), call.op \in Chars(<<"+", "#">>),
                                 TextOf(Resolved.val))

\* A reserved and a two-byte character were written under the default
\* operator.
C6_Witness ==
  /\ call.made
  /\ call.op = noOp
  /\ TextOf(Resolved.val) = <<Ch("/")>> \o EAcute
  /\ call.out = Str(<<"%", "2", "F", "%", "C", "3", "%", "A", "9">>)

\* The places of the well-formed percent-escapes of a value.
Triplets(s) == {k \in 1..Len(s) : TripletAt(Drop(s, k - 1))}

\* The value of the last call, written with the escape at k written as t.
WithTriplet(s, k, t) ==
  ScalarStart \o writeValue(call.op, Take(s, k - 1)) \o t
  \o writeValue(call.op, Drop(s, k + 2))

\* C7 as stated: under every operator a well-formed percent-escape of a
\* value is copied unchanged.
C7_Original ==
  ScalarWritten
    => LET s == TextOf(Resolved.val)
       IN  \A k \in Triplets(s) : call.out = WithTriplet(s, k, SubSeq(s, k, k + 2))

\* C7: a well-formed percent-escape of a value is copied unchanged under +
\* and #; under every other operator its % is written as %25, followed by
\* its two hex digits.
C7_Escapes ==
  ScalarWritten
    => LET s == TextOf(Resolved.val)
       IN  \A k \in Triplets(s) :
             call.out = WithTriplet(s, k,
                          IF call.op \in Chars(<<"+", "#">>) THEN SubSeq(s, k, k + 2)
                          ELSE Str(<<"%", "2", "5">>) \o SubSeq(s, k + 1, k + 2))

\* The value %44 was written under the operator ? as %2544.
C7_Witness ==
  /\ call.made
  /\ call.op = Ch("?")
  /\ TextOf(Resolved.val) = Str(<<"%", "4", "4">>)
  /\ call.out = Str(<<"?", "a", "=", "%", "2", "5", "4", "4">>)

\* What the last call wrote for an associative value, had its pairs been
\* visited in the order of pairs.
WrittenInOrder(val, pairs) ==
  IF call.modifier = explode
    THEN explodeMap(call.op, SepTable(call.op), pairs, FALSE, Lead).out
  ELSE IF isEmpty(val) THEN Lead \o writeVarNamePrefix(call.op, call.varName, TRUE)
  ELSE expandMap(call.op, pairs, FALSE,
                 Lead \o writeVarNamePrefix(call.op, call.varName, FALSE)).out

\* C8: the pairs of an associative value are visited, and so written with
\* and without explode, in ascending order of key for a native map, in
\* whatever order the map returns its keys, and in declared order for a
\* record.
C8_PairOrder ==
  Expanded(mapKind)
    => LET val == Resolved.val
       IN  /\ iterateMap(val) = OrderedPairs(val)
           /\ call.out = WrittenInOrder(val, OrderedPairs(val))

\* A map that returned its keys in descending order was written, exploded,
\* in ascending order.
C8_Witness ==
  /\ call.made
  /\ call.op = Ch("/")
  /\ call.modifier = explode
  /\ Resolved.val.kind = "Map"
  /\ Resolved.val.keys = <<KeyPool[1], KeyPool[2]>>
  /\ StrLess(KeyPool[2], KeyPool[1])
  /\ call.out = Str(<<"/", "j", "%", "2", "6", "=", "%", "3", "B", "/", "k", "=">>)

\* C9: a list with a defined element is written, without explode, as one
\* unit: the punctuation, the name= of a named operator, and the encoded
\* defined elements joined by commas; with explode, as one unit for each
\* defined element, each with its own name= under a named operator, joined
\* by the operator's separator.  An undefined element writes nothing.
C9_List ==
  Expanded(listKind)
    => LET o == call.op
           texts == ElemTexts(Resolved.val)
           enc == [k \in 1..Len(texts) |-> writeValue(o, texts[k])]
       IN  texts # << >>
             => IF call.modifier = explode
                  THEN call.out = Lead \o JoinWith(
                         [k \in 1..Len(texts) |->
                            NameEq(o, call.varName, texts[k] = << >>) \o enc[k]],
                         <<SepTable(o)>>)
                  ELSE call.out = Lead \o NameEq(o, call.varName, FALSE)
                                  \o JoinWith(enc, <<Ch(",")>>)

\* A list of an undefined and two defined elements, one of them empty, was
\* written exploded under the operator ; after another variable.
C9_Witness ==
  /\ call.made
  /\ call.op = Ch(";")
  /\ ~call.first
  /\ call.modifier = explode
  /\ Resolved.vk = listKind
  /\ Len(Resolved.val.elems) = MaxElems
  /\ Len(ElemTexts(Resolved.val)) = 2
  /\ ElemTexts(Resolved.val)[1] = << >>
  /\ call.out = Str(<<";", "a", ";", "a", "=", "x">>)

\* C10: an associative value with a defined pair is written, without
\* explode, as one unit: the punctuation, the name= of a named operator, and
\* key,value of each defined pair joined by commas; with explode, as one unit
\* for each defined pair, joined by the operator's separator: key=value under
\* an unnamed operator, and under a named one the key in the place of the
\* variable name.  A pair with an undefined value writes nothing.
C10_Assoc ==
  Expanded(mapKind)
    => LET o == call.op
           pairs == DefinedPairs(Resolved.val)
           key(k) == pairs[k].k
           text(k) == TextOf(pairs[k].v)
       IN  pairs # << >>
             => IF call.modifier = explode
                  THEN call.out = Lead \o JoinWith(
                         [k \in 1..Len(pairs) |->
                            IF Named(o)
                              THEN NameEq(o, key(k), text(k) = << >>) \o writeValue(o, text(k))
                              ELSE writeValue(o, key(k)) \o <<Ch("=")>>
                                   \o writeValue(o, text(k))],
                         <<SepTable(o)>>)
                  ELSE call.out = Lead \o NameEq(o, call.varName, FALSE)
                                  \o JoinWith(
                                       [k \in 1..Len(pairs) |->
                                          writeValue(o, key(k)) \o <<Ch(",")>>
                                          \o writeValue(o, text(k))],
                                       <<Ch(",")>>)

\* A record with an empty and a non-empty value was written exploded under
\* the operator ; as its two keys.
C10_Witness ==
  /\ call.made
  /\ call.op = Ch(";")
  /\ call.first
  /\ call.modifier = explode
  /\ Resolved.val.kind = "Struct"
  /\ call.out = Str(<<";", "k", ";", "j", "=", "%", "3", "B">>)

\* The code points of a string, each as the bytes that encode it; a byte
\* that starts no well-formed encoding stands for itself.
RECURSIVE CodePoints(_)
CodePoints(s) ==
  IF s = << >> THEN << >>
  ELSE <<Take(s, DecodeRuneInString(s).size)>>
       \o CodePoints(Drop(s, DecodeRuneInString(s).size))

\* The first n code points of a string, or all of them if it has fewer.
FirstCodePoints(s, n) ==
  LET cps == CodePoints(s)
  IN  JoinWith(SubSeq(cps, 1, IF n < Len(cps) THEN n ELSE Len(cps)), << >>)

\* Every % of a string starts a well-formed percent-escape.
WholeEscapes(s) == \A k \in 1..Len(s) : s[k] = Ch("%") => TripletAt(Drop(s, k - 1))

\* C11: a scalar with the prefix modifier :N is written as the encoding of
\* its first N code points, of all of them if it has no more than N: the
\* value is cut before it is encoded, and between code points, so that what
\* is written holds whole %XX triplets only.
C11_Prefix ==
  \A n \in PrefixLengths :
    (Expanded(scalarKind) /\ call.modifier = PrefixModifier(n))
      => LET s == TextOf(Resolved.val)
         IN  /\ call.out = ScalarStart \o writeValue(call.op, FirstCodePoints(s, n))
             /\ Len(CodePoints(s)) <= n
                  => call.out = ScalarStart \o writeValue(call.op, s)
             /\ WholeEscapes(call.out)

\* A two-byte character followed by another character was cut to its first
\* code point.
C11_Witness ==
  /\ call.made
  /\ call.op = Ch(";")
  /\ call.modifier = PrefixModifier(1)
  /\ TextOf(Resolved.val) = EAcute \o <<Ch("x")>>
  /\ call.out = Str(<<";", "a", "=", "%", "C", "3", "%", "A", "9">>)

\* The scanner stands at the opening brace of an expression.
AtExpression == pc = "scan" /\ i < Len(template) /\ template[i + 1] = Ch("{")

\* C12: an expression without a closing brace is copied to the output with
\* all the text after it, an unterminated-expression error is recorded and
\* the scan is at its end; an expression under one of the reserved operators
\* = , ! @ | is copied through its closing brace and an error is recorded;
\* neither looks a variable up.
C12_Echo ==
  [][AtExpression
       => LET expr == Drop(template, i)
              closed == Ch("}") \in Bytes(expr)
              end == CHOOSE k \in 1..Len(expr) :
                       expr[k] = Ch("}") /\ \A j \in 1..(k - 1) : expr[j] # Ch("}")
          IN  /\ ~closed
                   => /\ sb' = sb \o expr
                      /\ i' = Len(template)
                      /\ pc' = "scan"
                      /\ errs' = Append(errs, Error("unterminated expression", i))
                      /\ firstError' # nil
                      /\ call' = noCall
              /\ (closed /\ Len(expr) >= 2 /\ expr[2] \in Chars(<<"=", ",", "!", "@", "|">>))
                   => /\ sb' = sb \o Take(expr, end)
                      /\ i' = i + end
                      /\ pc' = "scan"
                      /\ Len(errs') = Len(errs) + 1
                      /\ errs'[Len(errs')].at = i
                      /\ firstError' # nil
                      /\ call' = noCall]_vars

\* An expression under a reserved operator, between two literals, was copied
\* to the output, and Expand returned the error.
C12_Witness ==
  /\ Returned
  /\ template = Str(<<"x", "{", "=", "a", ",", "b", "}", "x">>)
  /\ sb = template
  /\ firstError = Error("unknown operator", 1)

\* The scanner stands at a percent sign of the literal text.
AtPercent == pc = "scan" /\ i < Len(template) /\ template[i + 1] = Ch("%")

\* C13: a % of the literal text is consumed with the two characters after
\* it, or with those there are before the end of the template; none of them
\* is written, and an error is recorded exactly when the two characters are
\* not both hex digits.
C13_Percent ==
  [][AtPercent
       => LET cps == CodePoints(Drop(template, i))
              taken == JoinWith(SubSeq(cps, 1, IF Len(cps) < 3 THEN Len(cps) ELSE 3), << >>)
          IN  /\ i' = i + Len(taken)
              /\ sb' = sb
              /\ errs' = IF TripletAt(Drop(template, i)) THEN errs
                         ELSE Append(errs, Error("invalid percent escape", i))]_vars

\* The value of a under the interface and the pointer that hold it.
Held(v) ==
  IF v.kind = "Interface" /\ v.elems # << >>
    THEN (IF v.elems[1].kind = "Pointer" /\ v.elems[1].impl = {} /\ v.elems[1].elems # << >>
            THEN v.elems[1].elems[1] ELSE v.elems[1])
    ELSE v

\* The kind of a value by the precedence of capabilities over shapes, for
\* the capabilities caps and the maps of the key kinds keyKinds.
KindByPrecedence(v, caps, keyKinds) ==
  IF v.impl \cap caps # {} THEN scalarKind
  ELSE IF v.kind \in {"Slice", "Array"} THEN listKind
  ELSE IF (v.kind = "Map" /\ v.keyKind \in keyKinds) \/ v.kind = "Struct" THEN mapKind
  ELSE scalarKind

\* A value of the shapes above was expanded.
KindExpanded ==
  call.made /\ call.err = noError /\ call.varName = VarA /\ lookupKey(data, VarA) \in KindValues

StopsAfterVariable ==
  /\ pc = "expr"
  /\ Len(errs') = Len(errs) + 1
  /\ errs'[Len(errs')].msg \in {"missing variable name", "unexpected character"}

\* C16: when a variable name is missing or a character is unexpected after
\* the first variable of an expression, the expression stops, what the
\* earlier variables wrote is kept, and all of the expression body that
\* follows the variables already parsed is written again as an opening
\* brace, the operator, that text and a closing brace.
C16_Remainder ==
  [][StopsAfterVariable
       => /\ sb' = sb \o <<Ch("{")>> \o (IF op = noOp THEN << >> ELSE <<op>>)
                       \o rest \o <<Ch("}")>>
          /\ i' = i + exprLen
          /\ pc' = "scan"]_vars

\* C17: the emptiness test reports empty exactly for a zero-length string, a
\* list with no defined element and an associative array with no defined
\* pair, be it a native map or a record.
C17_Empty ==
  (call.made /\ call.err = noError /\ Resolved.vk # undefinedKind)
    => (isEmpty(Resolved.val) <=> ValueEmpty)

\* C18: no panic("unreachable") is reached: every call of the variable
\* expander has one of the eight valid operators (none, + # . / ; ? &), for
\* which the separator is defined; its value is Undefined, a scalar, a list or
\* an associative array; and the pairs of a map or of a struct only are
\* iterated.
C18_Reachable ==
  /\ pc # "panic"
  /\ call.made
       => /\ call.op \in validOps \cup {noOp}
          /\ call.op \notin reservedOps
          /\ opSep(call.op) # -1
          /\ Resolved.vk \in {undefinedKind, scalarKind, listKind, mapKind}
          /\ Resolved.vk = mapKind => Resolved.val.kind \in {"Map", "Struct"}

\* The pairs of a record were written one by one under the operator ?, and
\* the scan went on.
C18_Witness ==
  /\ pc = "expr"
  /\ call.made
  /\ call.op = Ch("?")
  /\ call.modifier = explode
  /\ call.out # << >>
  /\ Resolved.vk = mapKind
  /\ Resolved.val.kind = "Struct"

\* C19: a variable with the explode modifier whose list or associative array
\* has no defined element is like an Undefined one: it writes nothing, neither
\* prefix nor separator, and leaves the first flag as it was.
C19_ExplodeEmpty ==
  (call.made /\ call.err = noError /\ call.modifier = explode
   /\ Resolved.vk \in {listKind, mapKind} /\ ValueEmpty)
    => (call.out = << >> /\ call.stillFirst = call.first)

\* The characters an operator writes around the data of a variable: its
\* prefix, its separator, the = after a name or a key and the comma between
\* the members of a composite without explode.
Punctuation(o) == Bytes(PrefixTable(o)) \cup {SepTable(o)} \cup Chars(<<"=", ",">>)

\* C20: under every operator other than + and #, what a variable writes
\* besides the variable name and the operator's punctuation is unreserved
\* characters and %XX triplets: no reserved character of a value, of an
\* element or of a key is written as it is.
C20_DataEscaped ==
  (call.made /\ call.err = noError /\ call.op \notin Chars(<<"+", "#">>))
    => \A k \in 1..Len(call.out) :
         \/ call.out[k] \in UnreservedSet \cup Punctuation(call.op)
         \/ TripletAt(Drop(call.out, k - 1))

\* The places of a string that hold neither an unreserved nor a reserved
\* character nor the percent sign of a well-formed percent-escape.
IllFormed(s) ==
  {k \in 1..Len(s) :
     /\ s[k] \notin UnreservedSet \cup ReservedWithApostrophe
     /\ ~TripletAt(Drop(s, k - 1))}

\* C21: when Expand returns a nil error its output is made of unreserved
\* characters, reserved characters and well-formed percent-escapes: every
\* percent sign is followed by two hex digits, and there is no space, no
\* control character, no byte outside ASCII and none of the quote, angle
\* brackets, backslash, caret, backtick, braces and bar.
C21_WellFormed ==
  (Returned /\ firstError = nil)
    => /\ IllFormed(sb) = {}
       /\ \A k \in 1..Len(sb) :
            /\ sb[k] \in 33..126
            /\ sb[k] \notin Chars(<<"dquote", "<", ">", "backslash", "^", "backtick",
                                     "{", "|", "}">>)
            /\ sb[k] = Ch("%") => (k + 2 <= Len(sb) /\ isHex(sb[k + 1]) /\ isHex(sb[k + 2]))

\* Expand returned no error for an exploded pair under the operator ; whose
\* key is a quote and a letter and whose value is a percent sign.
C21_Witness ==
  /\ Returned
  /\ firstError = nil
  /\ template = ExprTemplate(Ch(";"), <<VarA \o explode>>)
  /\ sb = Str(<<";", "%", "2", "2", "k", "=", "%", "2", "5">>)

\* What describeStruct returns for a type, whoever builds it.
Described(t) == describeStruct(StructTypes[t])

\* An entry of the cache is what was first published, and fully populated;
\* so is what a goroutine has got from describeStruct.
EntriesComplete ==
  /\ \A t \in 1..Len(StructTypes) :
       descriptors[t] # << >> => (descriptors[t] = published[t]
                                 /\ descriptors[t] = <<Described(t)>>)
  /\ \A g \in Goroutines :
       goroutines[g].pc = "done" => goroutines[g].sd = <<Described(goroutines[g].t)>>

\* C15 as stated: the entry of a type is stored once, by the first writer,
\* never replaced, and always fully populated.
C15_Original ==
  /\ \A t \in 1..Len(StructTypes) : stores[t] <= 1
  /\ EntriesComplete

\* C15: under every interleaving, each call that finds no entry builds the
\* descriptor and stores it, so that the entry of a type is stored once for
\* each such call, a later store replacing it with an equal descriptor; the
\* entry never differs from what was first published, and a reader that
\* finds an entry sees a fully populated descriptor.
C15_Cache ==
  /\ \A t \in 1..Len(StructTypes) :
       stores[t] = Cardinality({g \in Goroutines :
                                 /\ goroutines[g].pc = "done"
                                 /\ goroutines[g].t = t
                                 /\ goroutines[g].missed})
  /\ EntriesComplete

\* Every goroutine has stored the descriptor of the second type.
C15_Witness ==
  /\ stores[2] = NumGoroutines
  /\ descriptors[2] = published[2]
  /\ descriptors[2] = <<Described(2)>>

====
